---- MODULE Spec2Model ----
(***************************************************************************)
(* A supervision unit (ModuleRunner, src/src/module.py) with its worker    *)
(* thread (_runner), its watchdog thread (_watchdog) and the fault policy  *)
(* registry it consults (ExceptionHandler, src/src/exception.py).          *)
(*                                                                         *)
(* Threads are preemptive: every shared read or write of the Python code   *)
(* is one step, and steps of different threads interleave freely.  Time is *)
(* discrete: a step takes no time, and Tick advances the clock by one unit *)
(* when every thread is sleeping, waiting, blocked or idle.                *)
(***************************************************************************)
EXTENDS Integers, Sequences, FiniteSets, TLC

\* ------------------------------------------------------------------ bounds
MaxThreads == 4        \* threads one unit may spawn in a run of the model
BlockTime == 15        \* how long a blocking run() blocks (Scenario C)
MaxCalls == 2          \* start/stop/restart calls the caller makes
MaxCount == 3          \* history counters saturate here
MaxSets == 3           \* set_exception_behavior calls while configuring
MaxTries == 3          \* largest max_tries given to handle()
MaxUnits == 3          \* modules registered with the ApplicationManager

\* --------------------------------------------------------- program constants
WatchdogTimeout == 10      \* heartbeat_event.wait(timeout=10)
HeartbeatInterval == 1     \* heartbeat_interval: int = 1

Caller == 0                \* the thread that owns the runner (__main__)
NoThread == 0 - 1          \* None in module_thread / watchdog_thread
Spawned == 1..MaxThreads
Tids == 0..MaxThreads

\* ------------------------------------------------------- exception.py: data
ExceptionAction ==
  {"CONTINUE", "RETRY", "RAISE", "LOG_AND_CONTINUE", "LOG_AND_RETRY", "CUSTOM"}

\* exception classes the demos register, `type` (the class of every class),
\* and the classes of the exceptions that are raised
ExcClasses == {"TimeoutError", "ValueError"}
DictKeys == ExcClasses \cup {"type"}
RaisedClasses == ExcClasses \cup {"PermissionError"}

\* An exception object: its class and its own `action` attribute, if any.
Exceptions == [cls : RaisedClasses, action : {"noattr", "CONTINUE", "RETRY"}]
NoExc == [cls |-> "none", action |-> "noattr"]
Inst(c) == [cls |-> c, action |-> "noattr"]

\* What a caller may pass as `exception` to set_exception_behavior: the class
\* itself (as every demo does) or an instance of it.
SetArgs == [tag : {"class", "instance"}, cls : ExcClasses]

\* type(x): the class of an instance; `type` for a class object.
TypeOf(x) == IF x.tag = "instance" THEN x.cls ELSE "type"

\* a custom handler is known by what it does when called
Handlers == {"returns", "raises"}

VARIABLES
  exception_behavior,   \* ExceptionHandler.exception_behavior: key -> action | "unset"
  custom_handlers,      \* ExceptionHandler.custom_handlers: key -> handler | "unset"
  lastSet,              \* the last set_exception_behavior call: its arguments
  sets,                 \* how many set_exception_behavior calls were made
  lastExc,              \* the exception last given to get/handle_exception
  lastGet,              \* what get_exception_behavior last returned
  lastHandle,           \* how handle_exception last ended: "returned" | "raised"
  module,               \* ModuleRunner.module: the worker class
  thread_active,        \* ModuleRunner.thread_active
  watchdog_active,      \* ModuleRunner.watchdog_active
  module_thread,        \* ModuleRunner.module_thread (a thread id or NoThread)
  watchdog_thread,      \* ModuleRunner.watchdog_thread
  heartbeat_event,      \* ModuleRunner.heartbeat_event (is it set)
  th,                   \* the threads: Caller and the spawned ones
  nextTid,              \* next unused thread id
  hist,                 \* the calls the caller has made, in order
  restarts,             \* how many times a watchdog called restart (saturating)
  handle,               \* ExceptionHandler.handle: the call in progress
  modules,              \* ApplicationManager.modules, in insertion order
  active,               \* ApplicationManager.active
  stop_all              \* ApplicationManager.stop_all: the call in progress

vars == <<exception_behavior, custom_handlers, lastSet, sets, lastExc, lastGet, lastHandle,
          module, thread_active, watchdog_active, module_thread,
          watchdog_thread, heartbeat_event, th, nextTid, hist, restarts,
          handle, modules, active, stop_all>>

policyVars == <<exception_behavior, custom_handlers, lastSet, sets, lastExc, lastGet,
                lastHandle>>
unitVars == <<module, thread_active, watchdog_active, module_thread,
              watchdog_thread, heartbeat_event, th, nextTid, hist, restarts>>
managerVars == <<modules, active, stop_all>>
otherVars == <<handle, managerVars>>

\* ---------------------------------------------------- exception.py: registry
EmptyDict == [k \in DictKeys |-> "unset"]

\* set_exception_behavior, the exception_behavior dict afterwards
SetBehaviorDict(dict, x, behavior) == [dict EXCEPT ![TypeOf(x)] = behavior]

\* set_exception_behavior, the custom_handlers dict afterwards
SetHandlerDict(dict, x, behavior, handler) ==
  IF behavior = "CUSTOM" /\ handler # "unset"
    THEN [dict EXCEPT ![TypeOf(x)] = handler]
    ELSE dict

\* get_exception_behavior: dict lookup by the instance's class, default
\* RAISE, overridden by the instance's own `action` attribute.
DictGet(dict, k, default) ==
  IF k \in DOMAIN dict /\ dict[k] # "unset" THEN dict[k] ELSE default

\* get_exception_behavior with a fail-open default
get_exception_behavior_open(dict, e) ==
  LET behavior == DictGet(dict, e.cls, "CONTINUE")
  IN IF e.action # "noattr" THEN e.action ELSE behavior

get_exception_behavior(dict, e) ==
  LET behavior == DictGet(dict, e.cls, "RAISE")
  IN IF e.action # "noattr" THEN e.action ELSE behavior

\* handle_exception that swallows where the code raises again
handle_exception_swallow(dict, handlers, e) ==
  LET action == get_exception_behavior(dict, e)
  IN CASE action = "CONTINUE" -> "returned"
       [] action = "LOG_AND_CONTINUE" -> "returned"
       [] action = "LOG_AND_RETRY" -> "returned"
       [] action = "CUSTOM" ->
            IF DictGet(handlers, e.cls, "unset") = "raises"
              THEN "raised" ELSE "returned"
       [] OTHER -> "raised"

\* handle_exception: "returned" when it returns, "raised" when it raises.
handle_exception(dict, handlers, e) ==
  LET action == get_exception_behavior(dict, e)
  IN CASE action = "CONTINUE" -> "returned"
       [] action = "LOG_AND_CONTINUE" -> "returned"
       [] action = "LOG_AND_RETRY" -> "raised"
       [] action = "CUSTOM" ->
            IF DictGet(handlers, e.cls, "unset") = "raises"
              THEN "raised" ELSE "returned"
       [] OTHER -> "raised"

\* ------------------------------------------------------------ module.py: data
\* A worker class: whether constructing it raises, how long its run() may
\* take, and which faults its run() may raise.
PingModule ==
  [name |-> "PingModule", ctorRaises |-> FALSE, runTimes |-> {0}, runFaults |-> {}]
UnstableModule ==
  [name |-> "UnstableModule", ctorRaises |-> FALSE, runTimes |-> {0},
   runFaults |-> {Inst("ValueError"), Inst("PermissionError")}]
BlockingModule ==
  [name |-> "BlockingModule", ctorRaises |-> FALSE, runTimes |-> {0, BlockTime},
   runFaults |-> {}]
BlockingUnstableModule ==
  [name |-> "BlockingUnstableModule", ctorRaises |-> FALSE,
   runTimes |-> {BlockTime}, runFaults |-> {Inst("PermissionError")}]
\* a run() that never returns is entered with this timer, which no Tick
\* decreases
Forever == BlockTime + 1
HungModule ==
  [name |-> "HungModule", ctorRaises |-> FALSE, runTimes |-> {Forever},
   runFaults |-> {}]
Module2 ==
  [name |-> "Module2", ctorRaises |-> TRUE, runTimes |-> {0}, runFaults |-> {}]
Modules ==
  {PingModule, UnstableModule, BlockingModule, BlockingUnstableModule,
   HungModule, Module2}

\* The registry the unit runs with: ValueError registered with an instance
\* as CONTINUE, every other class unmapped.
ConfiguredBehavior == [EmptyDict EXCEPT !["ValueError"] = "CONTINUE"]

FreeThread ==
  [kind |-> "free", alive |-> FALSE, pc |-> "none", todo |-> <<>>, sub |-> 0,
   target |-> NoThread, timer |-> 0, exc |-> NoExc, handled |-> "none",
   inst |-> FALSE, onStart |-> 0, onStop |-> 0, ran |-> FALSE,
   blocker |-> NoThread, joined |-> NoThread, failed |-> FALSE,
   restarted |-> FALSE]

CallerThread == [FreeThread EXCEPT !.kind = "caller", !.alive = TRUE, !.pc = "idle"]

Bump(n) == IF n < MaxCount THEN n + 1 ELSE n

NoSet == [arg |-> [tag |-> "none", cls |-> "none"], behavior |-> "none"]

\* no handle() call is in progress
NoHandle ==
  [function |-> [faults |-> 0, exc |-> NoExc], max_tries |-> 0, tries |-> 0,
   pc |-> "none", exception |-> NoExc, result |-> "none"]

\* no stop_all() call is in progress
NoStopAll == [pc |-> "none", i |-> 0, called |-> {}]

Init ==
  /\ exception_behavior = ConfiguredBehavior
  /\ custom_handlers = EmptyDict
  /\ lastSet = NoSet
  /\ sets = 0
  /\ lastExc = NoExc
  /\ lastGet = "none"
  /\ lastHandle = "none"
  /\ module \in Modules
  /\ thread_active = FALSE
  /\ watchdog_active = FALSE
  /\ module_thread = NoThread
  /\ watchdog_thread = NoThread
  /\ heartbeat_event = FALSE
  /\ th = [t \in Tids |-> IF t = Caller THEN CallerThread ELSE FreeThread]
  /\ nextTid = 1
  /\ hist = <<>>
  /\ restarts = 0
  /\ handle = NoHandle
  /\ modules = <<>>
  /\ active = FALSE
  /\ stop_all = NoStopAll

\* ------------------------------------------------- module.py: thread control
\* A thread that ended: _runner or _watchdog returned, or an exception
\* escaped it.
Dead(r) ==
  [FreeThread EXCEPT !.kind = r.kind, !.pc = "done", !.exc = r.exc,
                     !.handled = r.handled, !.ran = r.ran]

\* Where a thread goes on when the start/stop/restart it called has returned:
\* the caller is idle again, _runner ends after `self.stop()` (line 65), the
\* watchdog goes on to `heartbeat_event.clear()` (line 73).
Finish(r) ==
  CASE r.kind = "caller" -> [r EXCEPT !.pc = "idle"]
    [] r.kind = "worker" -> Dead(r)
    [] OTHER -> [r EXCEPT !.pc = "d_clear"]

\* One of _start_thread, _start_watchdog, _stop_thread, _stop_watchdog
\* returns: the thread goes on with the next one of its call.
Return(r) ==
  LET r2 == [r EXCEPT !.todo = Tail(@), !.sub = 0, !.target = NoThread]
  IN IF r2.todo = <<>> THEN Finish(r2) ELSE r2

\* An exception leaves start/stop/restart: the caller gets it, a spawned
\* thread dies of it.
Raise(r) ==
  IF r.kind = "caller"
    THEN [r EXCEPT !.todo = <<>>, !.sub = 0, !.target = NoThread,
                   !.pc = "idle", !.failed = TRUE]
    ELSE Dead(r)

\* start(watchdog), stop(watchdog), restart(watchdog) as the sequence of the
\* private methods they call.
StartOps(watchdog) ==
  <<"_start_thread">> \o (IF watchdog THEN <<"_start_watchdog">> ELSE <<>>)
StopOps(watchdog) ==
  (IF watchdog THEN <<"_stop_watchdog">> ELSE <<>>) \o <<"_stop_thread">>
RestartOps(watchdog) == StopOps(watchdog) \o StartOps(watchdog)

In(t, op, sub) ==
  /\ th[t].alive
  /\ th[t].pc = "call"
  /\ Head(th[t].todo) = op
  /\ th[t].sub = sub

NewWorker == [FreeThread EXCEPT !.kind = "worker", !.alive = TRUE, !.pc = "w_init"]
NewWatchdog == [FreeThread EXCEPT !.kind = "watchdog", !.alive = TRUE, !.pc = "d_loop"]

\* the caller calls start(watchdog)
CallStart(watchdog) ==
  /\ th[Caller].pc = "idle"
  /\ Len(hist) < MaxCalls
  /\ hist' = Append(hist, [op |-> "start", watchdog |-> watchdog])
  /\ th' = [th EXCEPT ![Caller].pc = "call", ![Caller].failed = FALSE,
                      ![Caller].todo = StartOps(watchdog)]
  /\ UNCHANGED <<policyVars, otherVars, module, thread_active, watchdog_active,
                 module_thread, watchdog_thread, heartbeat_event, nextTid, restarts>>

\* the caller calls stop(watchdog)
CallStop(watchdog) ==
  /\ th[Caller].pc = "idle"
  /\ Len(hist) < MaxCalls
  /\ hist' = Append(hist, [op |-> "stop", watchdog |-> watchdog])
  /\ th' = [th EXCEPT ![Caller].pc = "call", ![Caller].failed = FALSE,
                      ![Caller].todo = StopOps(watchdog)]
  /\ UNCHANGED <<policyVars, otherVars, module, thread_active, watchdog_active,
                 module_thread, watchdog_thread, heartbeat_event, nextTid, restarts>>

\* the caller calls restart(watchdog)
CallRestart(watchdog) ==
  /\ th[Caller].pc = "idle"
  /\ Len(hist) < MaxCalls
  /\ hist' = Append(hist, [op |-> "restart", watchdog |-> watchdog])
  /\ th' = [th EXCEPT ![Caller].pc = "call", ![Caller].failed = FALSE,
                      ![Caller].todo = RestartOps(watchdog)]
  /\ UNCHANGED <<policyVars, otherVars, module, thread_active, watchdog_active,
                 module_thread, watchdog_thread, heartbeat_event, nextTid, restarts>>

\* _start_thread, line 77: `if self.thread_active: ... return`
StartThreadCheck(t) ==
  /\ In(t, "_start_thread", 0)
  /\ th' = [th EXCEPT ![t] = IF thread_active THEN Return(@) ELSE [@ EXCEPT !.sub = 1]]
  /\ UNCHANGED <<policyVars, otherVars, module, thread_active, watchdog_active,
                 module_thread, watchdog_thread, heartbeat_event, nextTid, hist, restarts>>

\* _start_thread, lines 81-82: the Thread is created, stored and started
StartThreadSpawn(t) ==
  /\ In(t, "_start_thread", 1)
  /\ nextTid <= MaxThreads
  /\ module_thread' = nextTid
  /\ nextTid' = nextTid + 1
  /\ th' = [th EXCEPT ![t].sub = 2, ![nextTid] = NewWorker]
  /\ UNCHANGED <<policyVars, otherVars, module, thread_active, watchdog_active,
                 watchdog_thread, heartbeat_event, hist, restarts>>

\* _start_thread, line 83: `self.thread_active = True`
StartThreadSet(t) ==
  /\ In(t, "_start_thread", 2)
  /\ thread_active' = TRUE
  /\ th' = [th EXCEPT ![t] = Return(@)]
  /\ UNCHANGED <<policyVars, otherVars, module, watchdog_active, module_thread,
                 watchdog_thread, heartbeat_event, nextTid, hist, restarts>>

\* _start_watchdog, line 86: `if self.watchdog_active: ... return`
StartWatchdogCheck(t) ==
  /\ In(t, "_start_watchdog", 0)
  /\ th' = [th EXCEPT ![t] = IF watchdog_active THEN Return(@) ELSE [@ EXCEPT !.sub = 1]]
  /\ UNCHANGED <<policyVars, otherVars, module, thread_active, watchdog_active,
                 module_thread, watchdog_thread, heartbeat_event, nextTid, hist, restarts>>

\* _start_watchdog, lines 90-91: the Thread is created, stored and started
StartWatchdogSpawn(t) ==
  /\ In(t, "_start_watchdog", 1)
  /\ nextTid <= MaxThreads
  /\ watchdog_thread' = nextTid
  /\ nextTid' = nextTid + 1
  /\ th' = [th EXCEPT ![t].sub = 2, ![nextTid] = NewWatchdog]
  /\ UNCHANGED <<policyVars, otherVars, module, thread_active, watchdog_active,
                 module_thread, heartbeat_event, hist, restarts>>

\* _start_watchdog, line 92: `self.watchdog_active = True`
StartWatchdogSet(t) ==
  /\ In(t, "_start_watchdog", 2)
  /\ watchdog_active' = TRUE
  /\ th' = [th EXCEPT ![t] = Return(@)]
  /\ UNCHANGED <<policyVars, otherVars, module, thread_active, module_thread,
                 watchdog_thread, heartbeat_event, nextTid, hist, restarts>>

\* _stop_thread, line 96: `if not self.thread_active: ... return`
StopThreadCheck(t) ==
  /\ In(t, "_stop_thread", 0)
  /\ th' = [th EXCEPT ![t] = IF thread_active THEN [@ EXCEPT !.sub = 1] ELSE Return(@)]
  /\ UNCHANGED <<policyVars, otherVars, module, thread_active, watchdog_active,
                 module_thread, watchdog_thread, heartbeat_event, nextTid, hist, restarts>>

\* _stop_thread, line 100: `self.thread_active = False`
StopThreadClear(t) ==
  /\ In(t, "_stop_thread", 1)
  /\ thread_active' = FALSE
  /\ th' = [th EXCEPT ![t].sub = 2]
  /\ UNCHANGED <<policyVars, otherVars, module, watchdog_active, module_thread,
                 watchdog_thread, heartbeat_event, nextTid, hist, restarts>>

\* Thread.join() is called on handle h by thread r: AttributeError when the
\* handle is None, RuntimeError when a thread joins itself, else r waits.
JoinCall(r, t, h) ==
  IF h = NoThread \/ h = t THEN Raise(r) ELSE [r EXCEPT !.sub = 3, !.target = h]

\* _stop_thread, line 101: `self.module_thread.join()` is called
StopThreadJoin(t) ==
  /\ In(t, "_stop_thread", 2)
  /\ th' = [th EXCEPT ![t] = JoinCall(@, t, module_thread)]
  /\ UNCHANGED <<policyVars, otherVars, module, thread_active, watchdog_active,
                 module_thread, watchdog_thread, heartbeat_event, nextTid, hist, restarts>>

\* a join() that does not wait for its target
JoinDoneAtOnce(t) == TRUE

\* a join() returns once its target has ended
JoinDone(t) == ~th[th[t].target].alive

\* _stop_thread, lines 101-102: join() returns, `self.module_thread = None`
StopThreadJoined(t) ==
  /\ In(t, "_stop_thread", 3)
  /\ JoinDone(t)
  /\ module_thread' = NoThread
  /\ th' = [th EXCEPT ![t] = Return([@ EXCEPT !.joined =
                 IF th[t].kind = "watchdog" THEN th[t].target ELSE NoThread])]
  /\ UNCHANGED <<policyVars, otherVars, module, thread_active, watchdog_active,
                 watchdog_thread, heartbeat_event, nextTid, hist, restarts>>

\* _stop_watchdog, line 105: `if not self.watchdog_active: ... return`
StopWatchdogCheck(t) ==
  /\ In(t, "_stop_watchdog", 0)
  /\ th' = [th EXCEPT ![t] = IF watchdog_active THEN [@ EXCEPT !.sub = 1] ELSE Return(@)]
  /\ UNCHANGED <<policyVars, otherVars, module, thread_active, watchdog_active,
                 module_thread, watchdog_thread, heartbeat_event, nextTid, hist, restarts>>

\* _stop_watchdog, line 109: `self.watchdog_active = False`
StopWatchdogClear(t) ==
  /\ In(t, "_stop_watchdog", 1)
  /\ watchdog_active' = FALSE
  /\ th' = [th EXCEPT ![t].sub = 2]
  /\ UNCHANGED <<policyVars, otherVars, module, thread_active, module_thread,
                 watchdog_thread, heartbeat_event, nextTid, hist, restarts>>

\* _stop_watchdog, line 110: `self.watchdog_thread.join()` is called
StopWatchdogJoin(t) ==
  /\ In(t, "_stop_watchdog", 2)
  /\ th' = [th EXCEPT ![t] = JoinCall(@, t, watchdog_thread)]
  /\ UNCHANGED <<policyVars, otherVars, module, thread_active, watchdog_active,
                 module_thread, watchdog_thread, heartbeat_event, nextTid, hist, restarts>>

\* _stop_watchdog, lines 110-111: join() returns, `self.watchdog_thread = None`
StopWatchdogJoined(t) ==
  /\ In(t, "_stop_watchdog", 3)
  /\ JoinDone(t)
  /\ watchdog_thread' = NoThread
  /\ th' = [th EXCEPT ![t] = Return(@)]
  /\ UNCHANGED <<policyVars, otherVars, module, thread_active, watchdog_active,
                 module_thread, heartbeat_event, nextTid, hist, restarts>>

\* ------------------------------------------------------- module.py: _runner
\* the except clause, line 61: handle_exception(exception) is called with
\* the fault; whether it returns or raises, the finally clause runs next
Caught(r, e) ==
  [r EXCEPT !.exc = e, !.pc = "w_finally", !.timer = 0,
            !.handled = handle_exception(exception_behavior, custom_handlers, e)]

\* lines 52-53: the worker is constructed and on_start() is called
RunnerStart(t) ==
  /\ th[t].alive /\ th[t].pc = "w_init"
  /\ th' = [th EXCEPT ![t] =
       IF module.ctorRaises
         THEN Caught(@, Inst("TypeError"))
         ELSE [@ EXCEPT !.inst = TRUE, !.onStart = Bump(@), !.pc = "w_loop"]]
  /\ UNCHANGED <<policyVars, otherVars, module, thread_active, watchdog_active,
                 module_thread, watchdog_thread, heartbeat_event, nextTid, hist, restarts>>

\* the loop test of line 54 is reached: at first, and after each sleep
AtLoopTest(t) ==
  /\ th[t].alive
  /\ \/ th[t].pc = "w_loop"
     \/ th[t].pc = "w_sleep" /\ th[t].timer = 0

\* line 59, after the loop: `instance.on_stop()`
LoopExit(r) == [r EXCEPT !.onStop = Bump(@), !.pc = "w_finally"]

\* lines 54-55: `while self.thread_active` holds and run() is entered,
\* taking d time units
RunnerLoopRun(t, d) ==
  /\ AtLoopTest(t)
  /\ thread_active
  /\ th' = [th EXCEPT ![t].ran = TRUE, ![t].timer = d, ![t].pc = "w_running"]
  /\ UNCHANGED <<policyVars, otherVars, module, thread_active, watchdog_active,
                 module_thread, watchdog_thread, heartbeat_event, nextTid, hist, restarts>>

\* lines 54, 59: `while self.thread_active` fails, the loop is left
RunnerLoopExit(t) ==
  /\ AtLoopTest(t)
  /\ ~thread_active
  /\ th' = [th EXCEPT ![t] = LoopExit(@)]
  /\ UNCHANGED <<policyVars, otherVars, module, thread_active, watchdog_active,
                 module_thread, watchdog_thread, heartbeat_event, nextTid, hist, restarts>>

\* lines 55-58: run() returns, heartbeat(), heartbeat_event.set(), sleep
RunnerHeartbeat(t) ==
  /\ th[t].alive /\ th[t].pc = "w_running" /\ th[t].timer = 0
  /\ heartbeat_event' = TRUE
  /\ th' = [th EXCEPT ![t].pc = "w_sleep", ![t].timer = HeartbeatInterval]
  /\ UNCHANGED <<policyVars, otherVars, module, thread_active, watchdog_active,
                 module_thread, watchdog_thread, nextTid, hist, restarts>>

\* lines 55, 60-61: run() raises e, the except clause handles it
RunnerFault(t, e) ==
  /\ th[t].alive /\ th[t].pc = "w_running" /\ th[t].timer = 0
  /\ th' = [th EXCEPT ![t] = Caught(@, e)]
  /\ UNCHANGED <<policyVars, otherVars, module, thread_active, watchdog_active,
                 module_thread, watchdog_thread, heartbeat_event, nextTid, hist, restarts>>

\* line 63, in finally: `instance.on_stop()`; with no instance bound the
\* name lookup raises and the thread ends
FinallyOnStop(r) ==
  IF r.inst THEN [r EXCEPT !.onStop = Bump(@), !.pc = "w_fin_check"] ELSE Dead(r)

RunnerFinally(t) ==
  /\ th[t].alive /\ th[t].pc = "w_finally"
  /\ th' = [th EXCEPT ![t] = FinallyOnStop(@)]
  /\ UNCHANGED <<policyVars, otherVars, module, thread_active, watchdog_active,
                 module_thread, watchdog_thread, heartbeat_event, nextTid, hist, restarts>>

\* lines 64-65: `if self.thread_active: self.stop()`, else _runner ends
RunnerFinallyCheck(t) ==
  /\ th[t].alive /\ th[t].pc = "w_fin_check"
  /\ th' = [th EXCEPT ![t] =
       IF thread_active
         THEN [@ EXCEPT !.pc = "call", !.todo = StopOps(TRUE)]
         ELSE Dead(@)]
  /\ UNCHANGED <<policyVars, otherVars, module, thread_active, watchdog_active,
                 module_thread, watchdog_thread, heartbeat_event, nextTid, hist, restarts>>

\* ----------------------------------------------------- module.py: _watchdog
\* line 68: `while self.watchdog_active`; then the wait of line 69 begins
WatchdogLoop(t) ==
  /\ th[t].alive /\ th[t].pc = "d_loop"
  /\ th' = [th EXCEPT ![t] =
       IF watchdog_active THEN [@ EXCEPT !.pc = "d_wait", !.timer = 0] ELSE Dead(@)]
  /\ UNCHANGED <<policyVars, otherVars, module, thread_active, watchdog_active,
                 module_thread, watchdog_thread, heartbeat_event, nextTid, hist, restarts>>

\* line 69: heartbeat_event.wait(timeout=10) returns True, the event is set
WatchdogSignalled(t) ==
  /\ th[t].alive /\ th[t].pc = "d_wait"
  /\ heartbeat_event
  /\ th' = [th EXCEPT ![t].pc = "d_clear"]
  /\ UNCHANGED <<policyVars, otherVars, module, thread_active, watchdog_active,
                 module_thread, watchdog_thread, heartbeat_event, nextTid, hist, restarts>>

\* the worker thread the unit holds, when it is inside a run() that has not
\* returned (else NoThread)
BlockedWorker ==
  IF /\ module_thread # NoThread
     /\ th[module_thread].pc = "w_running"
     /\ th[module_thread].timer > 0
    THEN module_thread ELSE NoThread

\* lines 69-70: the wait times out and returns False
WatchdogTimedOut(t) ==
  /\ th[t].alive /\ th[t].pc = "d_wait"
  /\ ~heartbeat_event
  /\ th[t].timer >= WatchdogTimeout
  /\ th' = [th EXCEPT ![t].pc = "d_check", ![t].blocker = BlockedWorker]
  /\ UNCHANGED <<policyVars, otherVars, module, thread_active, watchdog_active,
                 module_thread, watchdog_thread, heartbeat_event, nextTid, hist, restarts>>

\* lines 71-72: `if self.watchdog_active: self.restart(watchdog=False)`
WatchdogCheck(t) ==
  /\ th[t].alive /\ th[t].pc = "d_check"
  /\ th' = [th EXCEPT ![t] =
       IF watchdog_active
         THEN [@ EXCEPT !.pc = "call", !.todo = RestartOps(FALSE),
                        !.restarted = TRUE]
         ELSE [@ EXCEPT !.pc = "d_clear"]]
  /\ restarts' = IF watchdog_active THEN Bump(restarts) ELSE restarts
  /\ UNCHANGED <<policyVars, otherVars, module, thread_active, watchdog_active,
                 module_thread, watchdog_thread, heartbeat_event, nextTid, hist>>

\* an Event.clear() that leaves a set flag set
EventKeep(ev) == ev

\* threading.Event.clear(): the flag afterwards
EventClear(ev) == FALSE

\* line 73: `self.heartbeat_event.clear()`
WatchdogClear(t) ==
  /\ th[t].alive /\ th[t].pc = "d_clear"
  /\ heartbeat_event' = EventClear(heartbeat_event)
  /\ th' = [th EXCEPT ![t].pc = "d_loop", ![t].timer = 0,
                      ![t].blocker = NoThread, ![t].joined = NoThread,
                      ![t].restarted = FALSE]
  /\ UNCHANGED <<policyVars, otherVars, module, thread_active, watchdog_active,
                 module_thread, watchdog_thread, nextTid, hist, restarts>>

\* ------------------------------------------------------------------- time
\* the longest a watchdog's clock is followed
TimerCap == WatchdogTimeout + BlockTime + HeartbeatInterval + 1

\* A thread that cannot take a step now: it sleeps (line 58), is inside a
\* run() that has not returned, waits on the heartbeat (line 69), waits in
\* join() for a live thread, has ended, or is the caller between two calls.
Blocked(t) ==
  \/ ~th[t].alive
  \/ th[t].pc = "idle"
  \/ th[t].pc \in {"w_running", "w_sleep"} /\ th[t].timer > 0
  \/ th[t].pc = "d_wait" /\ ~heartbeat_event /\ th[t].timer < WatchdogTimeout
  \/ th[t].pc = "call" /\ th[t].sub = 3 /\ ~JoinDone(t)

\* one time unit passes for thread record r
TickThread(r) ==
  CASE r.alive /\ r.kind = "worker" /\ r.timer > 0 /\ r.timer # Forever ->
         [r EXCEPT !.timer = @ - 1]
    [] r.alive /\ r.kind = "watchdog" /\ r.timer < TimerCap -> [r EXCEPT !.timer = @ + 1]
    [] OTHER -> r

\* time.sleep, a blocking run() and Event.wait(timeout) let time pass
Tick ==
  /\ \A t \in Tids : Blocked(t)
  /\ th' = [t \in Tids |-> TickThread(th[t])]
  /\ UNCHANGED <<policyVars, otherVars, module, thread_active, watchdog_active,
                 module_thread, watchdog_thread, heartbeat_event, nextTid, hist, restarts>>

Next ==
  \/ \E w \in BOOLEAN : CallStart(w)
  \/ \E w \in BOOLEAN : CallStop(w)
  \/ \E w \in BOOLEAN : CallRestart(w)
  \/ \E t \in Tids : StartThreadCheck(t)
  \/ \E t \in Tids : StartThreadSpawn(t)
  \/ \E t \in Tids : StartThreadSet(t)
  \/ \E t \in Tids : StartWatchdogCheck(t)
  \/ \E t \in Tids : StartWatchdogSpawn(t)
  \/ \E t \in Tids : StartWatchdogSet(t)
  \/ \E t \in Tids : StopThreadCheck(t)
  \/ \E t \in Tids : StopThreadClear(t)
  \/ \E t \in Tids : StopThreadJoin(t)
  \/ \E t \in Tids : StopThreadJoined(t)
  \/ \E t \in Tids : StopWatchdogCheck(t)
  \/ \E t \in Tids : StopWatchdogClear(t)
  \/ \E t \in Tids : StopWatchdogJoin(t)
  \/ \E t \in Tids : StopWatchdogJoined(t)
  \/ \E t \in Spawned : RunnerStart(t)
  \/ \E t \in Spawned : \E d \in module.runTimes : RunnerLoopRun(t, d)
  \/ \E t \in Spawned : RunnerLoopExit(t)
  \/ \E t \in Spawned : RunnerHeartbeat(t)
  \/ \E t \in Spawned : \E e \in module.runFaults : RunnerFault(t, e)
  \/ \E t \in Spawned : RunnerFinally(t)
  \/ \E t \in Spawned : RunnerFinallyCheck(t)
  \/ \E t \in Spawned : WatchdogLoop(t)
  \/ \E t \in Spawned : WatchdogSignalled(t)
  \/ \E t \in Spawned : WatchdogTimedOut(t)
  \/ \E t \in Spawned : WatchdogCheck(t)
  \/ \E t \in Spawned : WatchdogClear(t)
  \/ Tick

Spec == Init /\ [][Next]_vars

\* ------------------------------------------- exception.py: ExceptionHandler
\* ExceptionHandler(): both dicts empty; the unit is idle throughout
InitPolicy ==
  /\ exception_behavior = EmptyDict
  /\ custom_handlers = EmptyDict
  /\ lastSet = NoSet
  /\ sets = 0
  /\ lastExc = NoExc
  /\ lastGet = "none"
  /\ lastHandle = "none"
  /\ module = PingModule
  /\ thread_active = FALSE
  /\ watchdog_active = FALSE
  /\ module_thread = NoThread
  /\ watchdog_thread = NoThread
  /\ heartbeat_event = FALSE
  /\ th = [t \in Tids |-> IF t = Caller THEN CallerThread ELSE FreeThread]
  /\ nextTid = 1
  /\ hist = <<>>
  /\ restarts = 0
  /\ handle = NoHandle
  /\ modules = <<>>
  /\ active = FALSE
  /\ stop_all = NoStopAll

\* set_exception_behavior(exception, behavior, custom_handler)
SetExceptionBehavior(x, behavior, handler) ==
  /\ sets < MaxSets
  /\ sets' = sets + 1
  /\ exception_behavior' = SetBehaviorDict(exception_behavior, x, behavior)
  /\ custom_handlers' = SetHandlerDict(custom_handlers, x, behavior, handler)
  /\ lastSet' = [arg |-> x, behavior |-> behavior]
  /\ lastExc' = NoExc
  /\ lastGet' = "none"
  /\ lastHandle' = "none"
  /\ UNCHANGED <<unitVars, otherVars>>

\* get_exception_behavior(exception) is called and its result kept
GetExceptionBehavior(e) ==
  /\ lastExc' = e
  /\ lastGet' = get_exception_behavior(exception_behavior, e)
  /\ lastHandle' = "none"
  /\ UNCHANGED <<exception_behavior, custom_handlers, lastSet, sets, unitVars, otherVars>>

\* handle_exception(exception) is called and its outcome kept
HandleException(e) ==
  /\ lastExc' = e
  /\ lastGet' = get_exception_behavior(exception_behavior, e)
  /\ lastHandle' = handle_exception(exception_behavior, custom_handlers, e)
  /\ UNCHANGED <<exception_behavior, custom_handlers, lastSet, sets, unitVars, otherVars>>

NextPolicy ==
  \/ \E x \in SetArgs, b \in ExceptionAction, h \in Handlers \cup {"unset"} :
       SetExceptionBehavior(x, b, h)
  \/ \E e \in Exceptions : GetExceptionBehavior(e)
  \/ \E e \in Exceptions : HandleException(e)

SpecPolicy == InitPolicy /\ [][NextPolicy]_vars

\* ------------------------------------------------- exception.py: handle
\* The operation given to handle(): its first `faults` invocations raise
\* `exc`, the next one returns a value.
Functions == [faults : 0..MaxTries, exc : Exceptions]

\* the function raises on its n-th invocation
Faults(f, n) == n <= f.faults

\* _exception_giveup: True unless the exception resolves to a retry action
exception_giveup(dict, e) ==
  get_exception_behavior(dict, e) \notin {"RETRY", "LOG_AND_RETRY"}

\* ExceptionHandler() configured by one set_exception_behavior call, then
\* handle(function, max_tries) is called
InitRetry ==
  /\ \E x \in SetArgs, b \in ExceptionAction, h \in Handlers \cup {"unset"} :
       /\ exception_behavior = SetBehaviorDict(EmptyDict, x, b)
       /\ custom_handlers = SetHandlerDict(EmptyDict, x, b, h)
       /\ lastSet = [arg |-> x, behavior |-> b]
  /\ sets = 1
  /\ lastExc = NoExc
  /\ lastGet = "none"
  /\ lastHandle = "none"
  /\ module = PingModule
  /\ thread_active = FALSE
  /\ watchdog_active = FALSE
  /\ module_thread = NoThread
  /\ watchdog_thread = NoThread
  /\ heartbeat_event = FALSE
  /\ th = [t \in Tids |-> IF t = Caller THEN CallerThread ELSE FreeThread]
  /\ nextTid = 1
  /\ hist = <<>>
  /\ restarts = 0
  /\ \E f \in Functions, n \in 1..MaxTries :
       handle = [NoHandle EXCEPT !.function = f, !.max_tries = n, !.pc = "try"]
  /\ modules = <<>>
  /\ active = FALSE
  /\ stop_all = NoStopAll

\* lines 66-68: backoff invokes wrapped_function, which calls the function;
\* a returned value is returned through backoff to the caller of handle
WrappedCall ==
  /\ handle.pc = "try"
  /\ handle' =
       IF Faults(handle.function, handle.tries + 1)
         THEN [handle EXCEPT !.tries = @ + 1, !.pc = "except",
                             !.exception = handle.function.exc]
         ELSE [handle EXCEPT !.tries = @ + 1, !.pc = "done", !.result = "value"]
  /\ UNCHANGED <<policyVars, unitVars, managerVars>>

\* lines 68-69: `self.handle_exception(exception)`; when it returns,
\* wrapped_function returns None, and so does handle
WrappedExcept ==
  /\ handle.pc = "except"
  /\ handle' =
       IF handle_exception(exception_behavior, custom_handlers, handle.exception)
            = "returned"
         THEN [handle EXCEPT !.pc = "done", !.result = "None"]
         ELSE [handle EXCEPT !.pc = "raised"]
  /\ UNCHANGED <<policyVars, unitVars, managerVars>>

\* lines 61-64: the exception reaches backoff.on_exception, which raises it
\* to the caller when giveup(exception) holds or max_tries is used up
BackoffGiveup ==
  /\ handle.pc = "raised"
  /\ \/ exception_giveup(exception_behavior, handle.exception)
     \/ handle.tries = handle.max_tries
  /\ handle' = [handle EXCEPT !.pc = "done", !.result = "raised"]
  /\ UNCHANGED <<policyVars, unitVars, managerVars>>

\* lines 61-64: otherwise backoff waits and tries again
BackoffRetry ==
  /\ handle.pc = "raised"
  /\ ~exception_giveup(exception_behavior, handle.exception)
  /\ handle.tries < handle.max_tries
  /\ handle' = [handle EXCEPT !.pc = "try"]
  /\ UNCHANGED <<policyVars, unitVars, managerVars>>

NextRetry ==
  \/ WrappedCall
  \/ WrappedExcept
  \/ BackoffGiveup
  \/ BackoffRetry

SpecRetry == InitRetry /\ [][NextRetry]_vars

\* ------------------------------------------- manager.py: ApplicationManager
\* A registered ModuleRunner as the manager's thread sees it between calls:
\* its two flags and whether each thread handle holds a Thread (TRUE) or
\* None (FALSE).
NewRunner ==
  [thread_active |-> FALSE, watchdog_active |-> FALSE,
   module_thread |-> FALSE, watchdog_thread |-> FALSE]

\* after start(): both threads spawned, both flags set
StartedRunner ==
  [thread_active |-> TRUE, watchdog_active |-> TRUE,
   module_thread |-> TRUE, watchdog_thread |-> TRUE]

\* after a start() that raced with the _stop_thread of another thread of
\* the unit: line 83 set the flag, then line 102 set the handle to None
\* (the state HandleLost of the unit)
HandleLostRunner == [StartedRunner EXCEPT !.module_thread = FALSE]

RunnerStates == {NewRunner, StartedRunner, HandleLostRunner}

\* module names, in the order they are registered
ModuleNames == <<"Module1", "Module2", "PingModule">>

\* ModuleRunner.start() run to its end by the manager's thread
RunnerStartCall(u) ==
  LET u1 == IF u.thread_active THEN u
            ELSE [u EXCEPT !.module_thread = TRUE, !.thread_active = TRUE]
  IN IF u1.watchdog_active THEN u1
     ELSE [u1 EXCEPT !.watchdog_thread = TRUE, !.watchdog_active = TRUE]

\* _stop_watchdog: the runner afterwards, and whether None.join() raised
StopWatchdogCall(u) ==
  IF ~u.watchdog_active THEN [runner |-> u, raised |-> FALSE]
  ELSE IF ~u.watchdog_thread
    THEN [runner |-> [u EXCEPT !.watchdog_active = FALSE], raised |-> TRUE]
    ELSE [runner |-> [u EXCEPT !.watchdog_active = FALSE, !.watchdog_thread = FALSE],
          raised |-> FALSE]

\* _stop_thread: the runner afterwards, and whether None.join() raised
StopThreadCall(u) ==
  IF ~u.thread_active THEN [runner |-> u, raised |-> FALSE]
  ELSE IF ~u.module_thread
    THEN [runner |-> [u EXCEPT !.thread_active = FALSE], raised |-> TRUE]
    ELSE [runner |-> [u EXCEPT !.thread_active = FALSE, !.module_thread = FALSE],
          raised |-> FALSE]

\* ModuleRunner.stop() run by the manager's thread
RunnerStopCall(u) ==
  LET w == StopWatchdogCall(u)
  IN IF w.raised THEN w ELSE StopThreadCall(w.runner)

\* the manager with up to MaxUnits modules registered, each runner in a
\* state its unit can be in between two calls
InitManager ==
  /\ exception_behavior = EmptyDict
  /\ custom_handlers = EmptyDict
  /\ lastSet = NoSet
  /\ sets = 0
  /\ lastExc = NoExc
  /\ lastGet = "none"
  /\ lastHandle = "none"
  /\ module = PingModule
  /\ thread_active = FALSE
  /\ watchdog_active = FALSE
  /\ module_thread = NoThread
  /\ watchdog_thread = NoThread
  /\ heartbeat_event = FALSE
  /\ th = [t \in Tids |-> IF t = Caller THEN CallerThread ELSE FreeThread]
  /\ nextTid = 1
  /\ hist = <<>>
  /\ restarts = 0
  /\ handle = NoHandle
  /\ \E n \in 1..MaxUnits : \E us \in [1..n -> RunnerStates] :
       modules = [i \in 1..n |-> [name |-> ModuleNames[i], runner |-> us[i]]]
  /\ active \in BOOLEAN
  /\ stop_all = NoStopAll

\* no call of the manager is in progress
ManagerIdle == stop_all.pc \in {"none", "returned", "raised"}

\* start_all, lines 45-54, when the application is not active
StartAll ==
  /\ ManagerIdle
  /\ ~active
  /\ modules' = [i \in DOMAIN modules |->
                   [modules[i] EXCEPT !.runner = RunnerStartCall(@)]]
  /\ active' = TRUE
  /\ stop_all' = NoStopAll
  /\ UNCHANGED <<policyVars, unitVars, handle>>

\* stop_all, lines 58-62: the application is active, the loop begins
StopAllCall ==
  /\ ManagerIdle
  /\ active
  /\ stop_all' = [pc |-> "loop", i |-> 1, called |-> {}]
  /\ UNCHANGED <<policyVars, unitVars, handle, modules, active>>

\* stop_all, lines 62-64: `runner.stop()` for the next module; an
\* exception it raises leaves stop_all
StopAllStep ==
  /\ stop_all.pc = "loop"
  /\ stop_all.i <= Len(modules)
  /\ LET i == stop_all.i
         r == RunnerStopCall(modules[i].runner)
     IN /\ modules' = [modules EXCEPT ![i].runner = r.runner]
        /\ stop_all' = [pc |-> IF r.raised THEN "raised" ELSE "loop",
                        i |-> i + 1,
                        called |-> stop_all.called \cup {modules[i].name}]
  /\ UNCHANGED <<policyVars, unitVars, handle, active>>

\* stop_all, lines 66-67: the loop is over, `self.active = False`
StopAllEnd ==
  /\ stop_all.pc = "loop"
  /\ stop_all.i > Len(modules)
  /\ active' = FALSE
  /\ stop_all' = [stop_all EXCEPT !.pc = "returned"]
  /\ UNCHANGED <<policyVars, unitVars, handle, modules>>

NextManager ==
  \/ StartAll
  \/ StopAllCall
  \/ StopAllStep
  \/ StopAllEnd

SpecManager == InitManager /\ [][NextManager]_vars

\* =================================================================== claims
IsWorker(t) == th[t].kind = "worker"
IsWatchdog(t) == th[t].kind = "watchdog"
LiveWorkers == {t \in Spawned : IsWorker(t) /\ th[t].alive}
LiveWatchdogs == {t \in Spawned : IsWatchdog(t) /\ th[t].alive}
CallerIdle == th[Caller].pc = "idle"
StartCall == [op |-> "start", watchdog |-> TRUE]
StopCall == [op |-> "stop", watchdog |-> TRUE]

\* the worker has left its loop and the on_stop() of the finally clause is done
PastFinally(t) == th[t].alive /\ th[t].pc \in {"w_fin_check", "call"}

\* C1: in a start()/stop() cycle in which run() never faults, on_stop() has
\* been invoked exactly once on the worker when its thread function ends:
\* a worker that ran, met no fault and is past its finally clause has an
\* on_stop() count of 1.
C1_OnStopOnceOnNormalExit ==
  \A t \in Spawned :
    (IsWorker(t) /\ PastFinally(t) /\ th[t].ran /\ th[t].exc = NoExc
       /\ hist = <<StartCall, StopCall>>)
      => th[t].onStop = 1

\* C1, the case: after start() and stop(), a worker that ran without a fault
\* has finished its finally clause.
C1_Witness ==
  \E t \in Spawned :
    /\ IsWorker(t) /\ PastFinally(t) /\ th[t].ran /\ th[t].exc = NoExc
    /\ hist = <<StartCall, StopCall>>

\* run() of worker t raised a fault that handle_exception raised again
\* (disposition RAISE, also for an unmapped class)
Escalated(t) ==
  IsWorker(t) /\ th[t].ran /\ th[t].exc # NoExc /\ th[t].handled = "raised"
    /\ get_exception_behavior(exception_behavior, th[t].exc) = "RAISE"

\* C2: after a run() fault with disposition Escalate the unit ends stopped:
\* once the faulted worker's thread has ended and the single start() call
\* has returned, the running flag is clear and no worker thread is alive
\* (none was spawned by a watchdog restart).
C2_EscalateStopsUnit ==
  \A t \in Spawned :
    (Escalated(t) /\ ~th[t].alive /\ hist = <<StartCall>> /\ CallerIdle
       /\ module = UnstableModule)
      => (~thread_active /\ LiveWorkers = {})

\* C2, the case: a worker has died of an escalated run() fault after start().
C2_Witness ==
  \E t \in Spawned :
    Escalated(t) /\ ~th[t].alive /\ hist = <<StartCall>> /\ CallerIdle
      /\ module = UnstableModule

\* run() of worker t raised a fault that handle_exception swallowed
\* (disposition CONTINUE)
Continued(t) ==
  IsWorker(t) /\ th[t].ran /\ th[t].exc # NoExc /\ th[t].handled = "returned"
    /\ get_exception_behavior(exception_behavior, th[t].exc) = "CONTINUE"

\* C3: after a run() fault with disposition Continue the loop goes on:
\* the worker does not leave its loop and call on_stop() while the running
\* flag holds.
C3_ContinueKeepsLooping ==
  \A t \in Spawned :
    ~(Continued(t) /\ th[t].alive /\ th[t].pc = "w_fin_check"
        /\ th[t].onStop > 0 /\ thread_active)

\* C3, the case: handle_exception has returned normally for a run() fault.
C3_Witness == \E t \in Spawned : Continued(t) /\ th[t].alive

\* C4: under normal operation (run() returns at once and never faults, so a
\* loop period is HeartbeatInterval < WatchdogTimeout) and with start() the
\* only call made, the watchdog never calls restart.
C4_NoRestartWhenHealthy ==
  (module = PingModule /\ hist = <<StartCall>>) => restarts = 0

\* C4, the case: a healthy unit was started and its watchdog has completed
\* a wait that a heartbeat ended.
C4_Witness ==
  /\ module = PingModule /\ hist = <<StartCall>> /\ CallerIdle
  /\ \E t \in Spawned : IsWatchdog(t) /\ th[t].alive /\ th[t].pc = "d_clear"
  /\ \E t \in Spawned : IsWorker(t) /\ th[t].alive /\ th[t].pc = "w_sleep"

\* watchdog d timed out while the worker was blocked inside run(), and the
\* restart it called has put a new worker thread in place of the old one
Replaced(d) ==
  /\ IsWatchdog(d) /\ th[d].blocker # NoThread
  /\ In(d, "_start_thread", 2)

C6_AtMostOneOfEach ==
  Cardinality(LiveWorkers) <= 1 /\ Cardinality(LiveWatchdogs) <= 1

\* C6, the case: the unit runs a worker thread and a watchdog thread.
C6_Witness == LiveWorkers # {} /\ LiveWatchdogs # {}

\* C7: two consecutive start() calls on a healthy unit leave exactly one
\* worker thread and at most one watchdog thread alive.
C7_SecondStartIsNoOp ==
  (module = PingModule /\ hist = <<StartCall, StartCall>> /\ CallerIdle)
    => (Cardinality(LiveWorkers) = 1 /\ Cardinality(LiveWatchdogs) <= 1)

\* C7, the case: start() was called a second time and returned.
C7_Witness ==
  module = PingModule /\ hist = <<StartCall, StartCall>> /\ CallerIdle
    /\ thread_active

\* worker a is done with its hooks: its thread has ended, or the on_stop()
\* of its finally clause has returned
HooksDone(a) == ~th[a].alive \/ PastFinally(a)

\* C8: hooks are ordered: a worker's on_start() precedes its run(), and when
\* a later worker's on_start() has begun, every earlier worker's on_stop()
\* has completed.
C8_HooksOrdered ==
  /\ \A t \in Spawned : (IsWorker(t) /\ th[t].alive /\ th[t].ran) => th[t].onStart = 1
  /\ \A a, b \in Spawned :
       (IsWorker(a) /\ IsWorker(b) /\ a < b /\ th[b].onStart > 0) => HooksDone(a)

\* C8, the case: a second worker has begun on_start() after a first one.
C8_Witness ==
  \E a, b \in Spawned : IsWorker(a) /\ IsWorker(b) /\ a < b /\ th[b].onStart > 0

\* the class of exception e has no entry in exception_behavior
Unmapped(e) == DictGet(exception_behavior, e.cls, "unset") = "unset"

\* C9: get_exception_behavior of a fault whose class has no registered
\* policy returns RAISE, whatever else is registered, and handle_exception
\* raises the fault.
C9_UnmappedIsRaise ==
  (lastExc # NoExc /\ Unmapped(lastExc))
    => (lastGet = "RAISE" /\ lastHandle # "returned")

\* C9 as amended: this holds of a fault instance that carries no `action`
\* attribute of its own; an `action` attribute overrides the registry.
C9_UnmappedPlainIsRaise ==
  (lastExc # NoExc /\ Unmapped(lastExc) /\ lastExc.action = "noattr")
    => (lastGet = "RAISE" /\ lastHandle # "returned")

\* C9, the case: with another class registered, a plain fault of an
\* unmapped class was handled.
C9_Witness ==
  /\ lastExc # NoExc /\ Unmapped(lastExc) /\ lastExc.action = "noattr"
  /\ lastHandle = "raised"
  /\ \E k \in ExcClasses : exception_behavior[k] \notin {"unset", "RAISE"}

\* C10: after set_exception_behavior(K, d) with the class K itself, as the
\* demos and the test call it, get_exception_behavior of a raised fault of
\* class K returns d.
C10_SetThenGet ==
  (lastSet.arg.tag = "class" /\ lastExc.cls = lastSet.arg.cls
     /\ lastExc.action = "noattr")
    => lastGet = lastSet.behavior

\* C10, the case: a class was registered and a fault of it resolved.
C10_Witness ==
  lastSet.arg.tag = "class" /\ lastExc.cls = lastSet.arg.cls
    /\ lastExc.action = "noattr" /\ lastGet # "none"

\* the custom handler stored for the class of exception e ("unset": none)
HandlerOf(e) == DictGet(custom_handlers, e.cls, "unset")

\* C11: the outcome of handle_exception follows the resolved disposition:
\* it returns for CONTINUE and LOG_AND_CONTINUE, raises the fault again for
\* RETRY, LOG_AND_RETRY and RAISE, and for CUSTOM ends as the handler
\* registered for the class ends (returns or raises).
C11_OutcomeByDisposition ==
  lastHandle # "none" =>
    /\ lastGet \in {"CONTINUE", "LOG_AND_CONTINUE"} => lastHandle = "returned"
    /\ lastGet \in {"RETRY", "LOG_AND_RETRY", "RAISE"} => lastHandle = "raised"
    /\ (lastGet = "CUSTOM" /\ HandlerOf(lastExc) = "raises") => lastHandle = "raised"
    /\ (lastGet = "CUSTOM" /\ HandlerOf(lastExc) = "returns") => lastHandle = "returned"

\* C11, the case: a fault resolved to LOG_AND_RETRY was raised again, with a
\* raising custom handler registered for another class.
C11_Witness ==
  /\ lastHandle = "raised" /\ lastGet = "LOG_AND_RETRY"
  /\ \E k \in ExcClasses : custom_handlers[k] = "raises"

Min(a, b) == IF a < b THEN a ELSE b

\* handle() has ended
HandleDone == handle.pc = "done"

\* the class K of the function's faults was registered, as the demos do
\* with the class itself, with a retry action
RetryRegistered ==
  /\ lastSet.arg.tag = "class"
  /\ lastSet.arg.cls = handle.function.exc.cls
  /\ lastSet.behavior \in {"RETRY", "LOG_AND_RETRY"}
  /\ handle.function.exc.action = "noattr"

\* C12: with the class of the function's faults registered as RETRY or
\* LOG_AND_RETRY and max_tries = N, handle invokes the function exactly
\* min(k, N) times, k the first invocation that does not fault; it returns
\* the result when k <= N and otherwise raises the last fault.
C12_RetryUpToMaxTries ==
  (HandleDone /\ RetryRegistered) =>
    LET k == handle.function.faults + 1
    IN /\ handle.tries = Min(k, handle.max_tries)
       /\ handle.result = IF k <= handle.max_tries THEN "value" ELSE "raised"

\* C12, the case: the function faulted twice with a class registered for
\* retry, and handle(function, 3) has ended.
C12_Witness ==
  /\ HandleDone /\ RetryRegistered
  /\ handle.function.faults = 2 /\ handle.max_tries = 3

\* the function faulted with an exception that does not resolve to a retry
\* action
NoRetryFault ==
  /\ handle.function.faults > 0
  /\ exception_giveup(exception_behavior, handle.function.exc)

\* C13: when the function faults with an exception whose disposition is not
\* RETRY / LOG_AND_RETRY, handle stops after that invocation and raises the
\* fault to its caller instead of returning.
C13_NoRetryPropagates ==
  (HandleDone /\ NoRetryFault) => (handle.tries = 1 /\ handle.result = "raised")

\* C13, the case: handle has ended after a fault resolved to CONTINUE.
C13_Witness ==
  /\ HandleDone /\ NoRetryFault
  /\ get_exception_behavior(exception_behavior, handle.function.exc) = "CONTINUE"

\* thread d waits in the join() of _stop_thread for worker w, which is
\* inside a run() that never returns
JoinsHung(d, w) ==
  /\ In(d, "_stop_thread", 3) /\ th[d].target = w
  /\ th[w].alive /\ th[w].pc = "w_running" /\ th[w].timer = Forever

\* C14: a worker whose run() never returns is restarted by the watchdog
\* again and again: the restart called after a timeout completes and puts a
\* new worker thread in place.  So the watchdog is never in a restart that
\* cannot complete, waiting in join() for the worker that never returns.
C14_RestartCompletes ==
  \A d, w \in Spawned : ~(IsWatchdog(d) /\ JoinsHung(d, w))

\* C14, the case: the watchdog's wait has timed out on a worker inside a
\* run() that never returns, and the watchdog has called restart.
C14_Witness ==
  \E d \in Spawned :
    /\ module = HungModule /\ IsWatchdog(d) /\ th[d].alive
    /\ th[d].blocker # NoThread /\ th[d].pc = "call"

\* watchdog d is back from the restart it called (line 72 has returned)
BackFromRestart(d) ==
  IsWatchdog(d) /\ th[d].alive /\ th[d].pc = "d_clear" /\ th[d].restarted

\* a watchdog thread is in a stop of the watchdog, or joins itself
TouchesItself(d) ==
  /\ IsWatchdog(d) /\ th[d].alive /\ th[d].pc = "call"
  /\ \/ \E i \in 1..Len(th[d].todo) : th[d].todo[i] \in {"_stop_watchdog", "_start_watchdog"}
     \/ th[d].target = d

\* C15: a restart triggered by the watchdog is restart(watchdog=False): the
\* watchdog thread never stops the watchdog and never joins itself, and
\* when the restart has returned (the caller having made no call but its
\* start()), it is still the unit's one active watchdog.
C15_WatchdogKeepsWatching ==
  \A d \in Spawned :
    /\ ~TouchesItself(d)
    /\ (BackFromRestart(d) /\ hist = <<StartCall>>)
         => (watchdog_active /\ watchdog_thread = d /\ LiveWatchdogs = {d})

\* C15, the case: a watchdog is back from a restart in which it joined the
\* old worker thread.
C15_Witness ==
  \E d \in Spawned :
    BackFromRestart(d) /\ hist = <<StartCall>> /\ th[d].joined # NoThread

\* watchdog d ends a wait cycle in this step: it returns to the loop test
\* of line 68
EndsCycle(d) ==
  IsWatchdog(d) /\ th[d].alive /\ th[d].pc # "d_loop" /\ th'[d].pc = "d_loop"

\* C16: the watchdog ends every wait cycle, signalled or timed out, with
\* one clear of the heartbeat event: it returns to its loop test only by
\* the clear of line 73, which leaves the event unset, so a heartbeat set
\* between the end of the wait and the clear (also one set during the
\* restart) is gone when the next wait begins.
C16_ClearEndsEveryCycle ==
  [][\A d \in Spawned :
       EndsCycle(d) => (th[d].pc = "d_clear" /\ ~heartbeat_event')]_vars

\* C16, the case: a watchdog is back from the restart it triggered, about
\* to clear, and the new worker has set the heartbeat event meanwhile.
C16_Witness ==
  \E d \in Spawned : BackFromRestart(d) /\ heartbeat_event /\ LiveWorkers # {}

\* the names of the registered modules
Registered == {modules[i].name : i \in DOMAIN modules}

\* C17: stop_all tries to stop every registered unit: when the call is
\* over, by returning or by an exception of one unit's stop(), stop() has
\* been called on each registered unit.
C17_StopAllStopsEvery ==
  stop_all.pc \in {"returned", "raised"} => stop_all.called = Registered

\* C17, the case: stop() of one unit raised during stop_all while further
\* units were registered behind it.
C17_Witness ==
  stop_all.pc = "raised" /\ stop_all.i <= Len(modules)

\* the unit is in the state of HandleLostRunner and its caller is idle
HandleLost ==
  CallerIdle /\ thread_active /\ module_thread = NoThread
    /\ watchdog_active /\ watchdog_thread # NoThread

\* worker w, shutting the unit down by stop(), waits in join() for watchdog
\* d, while d, in the restart it triggered, waits in join() for w
JoinDeadlock(w, d) ==
  /\ IsWorker(w) /\ In(w, "_stop_watchdog", 3) /\ th[w].target = d
  /\ IsWatchdog(d) /\ In(d, "_stop_thread", 3) /\ th[d].target = w

\* C18: no join deadlock between the two threads of a unit is reachable.
C18_NoJoinDeadlock ==
  \A w, d \in Spawned : ~JoinDeadlock(w, d)

\* C18, the case: a worker, in the stop() of its finally clause, waits in
\* join() for the watchdog.
C18_Witness ==
  \E w, d \in Spawned :
    IsWorker(w) /\ In(w, "_stop_watchdog", 3) /\ th[w].target = d /\ th[d].alive

\* the caller's last call was stop(watchdog) and it has returned
StopReturned ==
  /\ hist # <<>> /\ hist[Len(hist)].op = "stop"
  /\ CallerIdle /\ ~th[Caller].failed

\* a worker thread is spawned in this step
WorkerSpawned ==
  \E t \in Spawned : th[t].kind = "free" /\ th'[t].kind = "worker"

\* C19: a stopped unit stays stopped: once stop(watchdog) has returned,
\* for either value of watchdog, no worker thread is spawned before the
\* caller's next start() or restart().
C19_StoppedStaysStopped ==
  [][StopReturned => ~WorkerSpawned]_vars

\* C19, the case: after start(), stop(watchdog=False) has returned with
\* all worker threads ended and the watchdog alive.
C19_Witness ==
  /\ StopReturned /\ hist[Len(hist)].watchdog = FALSE /\ Len(hist) = 2
  /\ hist[1] = StartCall
  /\ LiveWorkers = {} /\ LiveWatchdogs # {}

\* C20: a thread spawned by start() does not end for having read its flag
\* before start() set it: when start() on an idle unit has returned, no
\* other call was made and no fault occurred, a set running flag means the
\* worker thread is alive and a set watchdog flag means the watchdog
\* thread is alive.
C20_StartedThreadsAlive ==
  (module = PingModule /\ hist = <<StartCall>> /\ CallerIdle /\ restarts = 0)
    => /\ thread_active => (module_thread # NoThread /\ th[module_thread].alive)
       /\ watchdog_active =>
            (watchdog_thread # NoThread /\ th[watchdog_thread].alive)

\* C20, the case: start() on an idle healthy unit has returned, both flags
\* are set and the worker has been through run().
C20_Witness ==
  /\ module = PingModule /\ hist = <<StartCall>> /\ CallerIdle /\ restarts = 0
  /\ thread_active /\ watchdog_active
  /\ \E t \in Spawned : IsWorker(t) /\ th[t].alive /\ th[t].ran

\* worker t met a fault while the worker instance was constructed (line
\* 52), and its thread has ended
CtorFaulted(t) ==
  IsWorker(t) /\ ~th[t].alive /\ ~th[t].ran /\ th[t].exc # NoExc

\* C21: a fault raised while the worker instance is constructed is handled
\* like a run() fault: handle_exception resolves it, no hook runs on a
\* worker that was never constructed, and once the thread has ended (the
\* caller having made no call but its start()) the running flag is clear
\* and the watchdog has not restarted the unit.
C21_CtorFaultStopsUnit ==
  /\ \A t \in Spawned :
       (IsWorker(t) /\ th[t].alive /\ ~th[t].inst)
         => (th[t].onStart = 0 /\ th[t].onStop = 0)
  /\ \A t \in Spawned :
       (CtorFaulted(t) /\ hist = <<StartCall>> /\ CallerIdle)
         => (th[t].handled # "none" /\ ~thread_active /\ restarts = 0)

\* C21, the case: after start() the constructor of Module2 has raised, the
\* fault went through handle_exception and the worker thread has ended.
C21_Witness ==
  \E t \in Spawned :
    /\ module = Module2 /\ hist = <<StartCall>> /\ CallerIdle
    /\ CtorFaulted(t) /\ th[t].handled = "raised"

\* the watchdog has restarted a unit whose constructor raises more than once
CtorFaultRestartedAgain ==
  module = Module2 /\ hist = <<StartCall>> /\ restarts >= 2

====
